---- MODULE Spec2Model ----
(***************************************************************************)
(* rke2-security-responder: a one-shot telemetry reporter.                 *)
(*                                                                         *)
(* The repository holds two programs of package main:                      *)
(*   src/main.go            the file the Makefile and the Dockerfile build *)
(*   src/unnamed/part_001   the same program with a retry loop, a          *)
(*                          label-only SELinux mapping and lower-cased     *)
(*                          substring matching                             *)
(* The variable build says which of the two is running.  Where the two     *)
(* files hold the same code one definition models both; where they differ  *)
(* the definition of src/main.go carries the suffix _main_go.              *)
(***************************************************************************)
EXTENDS Integers, Sequences, FiniteSets, TLC

VARIABLES
    build,              \* which program file runs: "main_go" or "part_001"
    disableTelemetry,   \* os.Getenv("DISABLE_TELEMETRY")
    telemetryEndpoint,  \* os.Getenv("TELEMETRY_ENDPOINT")
    pc,                 \* position of main
    exitCode,           \* -1 while running, then the process exit code
    calls,              \* client constructions and cluster API calls made, in order
    data,               \* *TelemetryData of collectTelemetryData / main
    collectErr,         \* error returned by collectTelemetryData ("" is nil)
    deployments,        \* detectIngressController: the Deployment listing it holds
    script,             \* what the endpoint answers to the 1st, 2nd, 3rd request
    endpoint,           \* the endpoint main hands to sendTelemetryData
    jsonData,           \* sendTelemetryData: the marshalled record
    attempt,            \* loop variable of sendTelemetryData
    lastErr,            \* sendTelemetryData: lastErr ("" is nil)
    requests,           \* HTTP requests handed to client.Do, in order
    sleeps,             \* time.Sleep calls made, in order (seconds)
    sendErr,            \* result of sendTelemetryData: "pending", "nil" or the error
    phase,              \* harness of the pure functions: "idle", "call", "return"
    input,              \* harness: the argument
    output              \* harness: the result

vars == <<build, disableTelemetry, telemetryEndpoint, pc, exitCode, calls, data,
          collectErr, deployments, script, endpoint, jsonData, attempt, lastErr, requests, sleeps,
          sendErr, phase, input, output>>

mainVars == <<disableTelemetry, telemetryEndpoint, pc, exitCode, calls, data,
              collectErr, deployments, script, endpoint, jsonData, attempt, lastErr, requests,
              sleeps, sendErr>>

harnessVars == <<phase, input, output>>

-----------------------------------------------------------------------------
(* Bounds *)

MaxNodes == 2
MaxWorkloads == 2
MaxDeployments == 1
MaxRunNodes == 2
MaxRunWorkloads == 1

-----------------------------------------------------------------------------
(* Program constants *)

maxRetries == 3
retryDelay == 2
defaultTelemetryEndpoint == "https://telemetry.rke2.io/v1/telemetry"

Builds == {"main_go", "part_001"}

LabelControlPlane == "node-role.kubernetes.io/control-plane"
LabelMaster == "node-role.kubernetes.io/master"
LabelSELinux == "security.alpha.kubernetes.io/selinux"

-----------------------------------------------------------------------------
(* Strings as sequences of characters, so that case folding and substring  *)
(* search are computed and not assumed.                                    *)

UpperChars == <<"A", "B", "C", "D", "E", "F", "G", "H", "I", "J", "K", "L", "M", "N", "O", "P", "Q", "R", "S", "T", "U", "V", "W", "X", "Y", "Z">>
LowerChars == <<"a", "b", "c", "d", "e", "f", "g", "h", "i", "j", "k", "l", "m", "n", "o", "p", "q", "r", "s", "t", "u", "v", "w", "x", "y", "z">>

\* The lower-case letter of each upper-case letter.
LowerOf ==
    [c \in {UpperChars[k] : k \in 1..Len(UpperChars)} |->
        LowerChars[CHOOSE k \in 1..Len(UpperChars) : UpperChars[k] = c]]

ToLowerChar(c) == IF c \in DOMAIN LowerOf THEN LowerOf[c] ELSE c

\* strings.ToLower
ToLower(s) == [i \in 1..Len(s) |-> ToLowerChar(s[i])]

\* strings.Contains
Contains(s, substr) ==
    \E i \in 0..(Len(s) - Len(substr)) : SubSeq(s, i + 1, i + Len(substr)) = substr

\* src/main.go hasSubstring: for i := 0; i <= len(s)-len(substr); i++
hasSubstring_main_go(s, substr) ==
    \E i \in 0..(Len(s) - Len(substr)) : SubSeq(s, i + 1, i + Len(substr)) = substr

\* src/main.go contains: compares the bytes of s as they are
contains_main_go(s, substr) ==
    /\ Len(s) >= Len(substr)
    /\ \/ s = substr
       \/ /\ Len(s) > Len(substr)
          /\ \/ SubSeq(s, 1, Len(substr)) = substr
             \/ SubSeq(s, Len(s) - Len(substr) + 1, Len(s)) = substr
             \/ hasSubstring_main_go(s, substr)

KW_canal == <<"c", "a", "n", "a", "l">>
KW_flannel == <<"f", "l", "a", "n", "n", "e", "l">>
KW_calico == <<"c", "a", "l", "i", "c", "o">>
KW_cilium == <<"c", "i", "l", "i", "u", "m">>
KW_weave == <<"w", "e", "a", "v", "e">>
KW_nginx_ingress == <<"n", "g", "i", "n", "x", "-", "i", "n", "g", "r", "e", "s", "s">>
KW_rke2_ingress_nginx == <<"r", "k", "e", "2", "-", "i", "n", "g", "r", "e", "s", "s", "-", "n", "g", "i", "n", "x">>
KW_traefik == <<"t", "r", "a", "e", "f", "i", "k">>

-----------------------------------------------------------------------------
(* Nodes *)

\* A slip in the role test: the master label is forgotten.
isControlPlaneNode_noMaster(node) == LabelControlPlane \in DOMAIN node.labels

\* isControlPlaneNode (the same code in both files)
isControlPlaneNode(node) ==
    LET hasControlPlaneLabel == LabelControlPlane \in DOMAIN node.labels
        hasMasterLabel == LabelMaster \in DOMAIN node.labels
    IN  hasControlPlaneLabel \/ hasMasterLabel

\* getSELinuxStatus of src/unnamed/part_001
getSELinuxStatus(node) ==
    IF LabelSELinux \in DOMAIN node.labels
    THEN IF node.labels[LabelSELinux] = "enabled" THEN "enabled" ELSE "disabled"
    ELSE "unknown"

\* getSELinuxStatus of src/main.go
getSELinuxStatus_main_go(node) ==
    IF LabelSELinux \in DOMAIN node.labels /\ node.labels[LabelSELinux] = "enabled"
    THEN "enabled"
    ELSE IF node.kernelVersion # "" THEN "unknown" ELSE "disabled"

SELinuxStatusOf(b, node) ==
    IF b = "main_go" THEN getSELinuxStatus_main_go(node) ELSE getSELinuxStatus(node)

\* The locals of the node loop before its first iteration.
censusStart ==
    [serverNodeCount |-> 0, agentNodeCount |-> 0, osInfo |-> "", selinuxInfo |-> ""]

\* One iteration of "for _, node := range nodes.Items" (the same in both files).
censusStep(b, acc, node) ==
    [serverNodeCount |-> IF isControlPlaneNode(node)
                         THEN acc.serverNodeCount + 1 ELSE acc.serverNodeCount,
     agentNodeCount  |-> IF isControlPlaneNode(node)
                         THEN acc.agentNodeCount ELSE acc.agentNodeCount + 1,
     osInfo          |-> IF acc.osInfo = "" THEN node.osImage ELSE acc.osInfo,
     selinuxInfo     |-> IF acc.selinuxInfo = ""
                         THEN SELinuxStatusOf(b, node) ELSE acc.selinuxInfo]

RECURSIVE censusLoop(_, _, _, _)
censusLoop(b, acc, items, i) ==
    IF i > Len(items) THEN acc
    ELSE censusLoop(b, censusStep(b, acc, items[i]), items, i + 1)

\* The whole node loop over a listing.
nodeCensus(b, items) == censusLoop(b, censusStart, items, 1)

-----------------------------------------------------------------------------
(* Workload detection *)

\* The if-chain of detectCNIPlugin for one DaemonSet name; "" when none matches.
cniLabelOf(dsName) ==
    LET name == ToLower(dsName)
    IN  IF Contains(name, KW_canal) THEN "canal"
        ELSE IF Contains(name, KW_flannel) THEN "flannel"
        ELSE IF Contains(name, KW_calico) THEN "calico"
        ELSE IF Contains(name, KW_cilium) THEN "cilium"
        ELSE IF Contains(name, KW_weave) THEN "weave"
        ELSE ""

\* The switch of src/main.go detectCNIPlugin for one DaemonSet name.
cniLabelOf_main_go(dsName) ==
    IF contains_main_go(dsName, KW_canal) THEN "canal"
    ELSE IF contains_main_go(dsName, KW_flannel) THEN "flannel"
    ELSE IF contains_main_go(dsName, KW_calico) THEN "calico"
    ELSE IF contains_main_go(dsName, KW_cilium) THEN "cilium"
    ELSE IF contains_main_go(dsName, KW_weave) THEN "weave"
    ELSE ""

\* The if-chain of detectIngressController for one workload name.
ingressLabelOf(workloadName) ==
    LET name == ToLower(workloadName)
    IN  IF Contains(name, KW_nginx_ingress) \/ Contains(name, KW_rke2_ingress_nginx)
        THEN "rke2-ingress-nginx"
        ELSE IF Contains(name, KW_traefik) THEN "traefik"
        ELSE ""

\* The switch of src/main.go detectIngressController for one workload name.
ingressLabelOf_main_go(workloadName) ==
    IF \/ contains_main_go(workloadName, KW_nginx_ingress)
       \/ contains_main_go(workloadName, KW_rke2_ingress_nginx)
    THEN "rke2-ingress-nginx"
    ELSE IF contains_main_go(workloadName, KW_traefik) THEN "traefik"
    ELSE ""

CniLabel(b, name) ==
    IF b = "main_go" THEN cniLabelOf_main_go(name) ELSE cniLabelOf(name)

IngressLabel(b, name) ==
    IF b = "main_go" THEN ingressLabelOf_main_go(name) ELSE ingressLabelOf(name)

\* "for _, ds := range daemonSets.Items": the label returned from inside the
\* loop, or "" when the loop runs to its end.
RECURSIVE scanCNI(_, _, _)
scanCNI(b, items, i) ==
    IF i > Len(items) THEN ""
    ELSE LET hit == CniLabel(b, items[i])
         IN  IF hit # "" THEN hit ELSE scanCNI(b, items, i + 1)

RECURSIVE scanIngress(_, _, _)
scanIngress(b, items, i) ==
    IF i > Len(items) THEN ""
    ELSE LET hit == IngressLabel(b, items[i])
         IN  IF hit # "" THEN hit ELSE scanIngress(b, items, i + 1)

\* detectCNIPlugin on the answer of the DaemonSet listing: (label, err).
detectCNIPlugin(b, daemonSets) ==
    IF daemonSets.err THEN [label |-> "", err |-> TRUE]
    ELSE LET hit == scanCNI(b, daemonSets.items, 1)
         IN  IF hit # "" THEN [label |-> hit, err |-> FALSE]
             ELSE [label |-> "unknown", err |-> FALSE]

\* detectIngressController on the answers of its two listings: (label, err) and
\* whether the DaemonSet listing was issued.
detectIngressController(b, deployAnswer, dsAnswer) ==
    IF deployAnswer.err THEN [label |-> "", err |-> TRUE, listedDaemonSets |-> FALSE]
    ELSE IF scanIngress(b, deployAnswer.items, 1) # ""
    THEN [label |-> scanIngress(b, deployAnswer.items, 1), err |-> FALSE,
          listedDaemonSets |-> FALSE]
    ELSE IF ~dsAnswer.err /\ scanIngress(b, dsAnswer.items, 1) # ""
    THEN [label |-> scanIngress(b, dsAnswer.items, 1), err |-> FALSE,
          listedDaemonSets |-> TRUE]
    ELSE [label |-> "none", err |-> FALSE, listedDaemonSets |-> TRUE]

\* collectTelemetryData: "if err != nil { ...; cniPlugin = "unknown" }"
orUnknown(detected) == IF detected.err THEN "unknown" ELSE detected.label

-----------------------------------------------------------------------------
(* The telemetry record *)

EmptyMap == [k \in {} |-> ""]

\* m[k] = v on a Go map
Put(m, k, v) == [x \in (DOMAIN m) \cup {k} |-> IF x = k THEN v ELSE m[x]]

\* a nil *TelemetryData
NilData == [nil |-> TRUE, appVersion |-> "", tags |-> EmptyMap, fields |-> EmptyMap]

\* data := &TelemetryData{ExtraTagInfo: make(...), ExtraFieldInfo: make(...)}
NewData == [nil |-> FALSE, appVersion |-> "", tags |-> EmptyMap, fields |-> EmptyMap]

\* json.Marshal(data): the struct tags name the three members of the object.
Marshal(d) ==
    [appVersion |-> d.appVersion, extraTagInfo |-> d.tags, extraFieldInfo |-> d.fields]

-----------------------------------------------------------------------------
(* What the environment can hand to the program *)

SeqsUpTo(S, n) == UNION {[1..k -> S] : k \in 0..n}

Absent == "<absent>"

\* The label map holding the keys whose value is not Absent.
MkLabels(cp, ms, se) ==
    LET pairs == {<<LabelControlPlane, cp>>, <<LabelMaster, ms>>, <<LabelSELinux, se>>}
        present == {p \in pairs : p[2] # Absent}
    IN  [k \in {p[1] : p \in present} |-> (CHOOSE p \in present : p[1] = k)[2]]

NodeKinds ==
    {[labels |-> MkLabels(cp, ms, se), osImage |-> os, kernelVersion |-> kv] :
        cp \in {Absent, "true"}, ms \in {Absent, ""},
        se \in {Absent, "enabled", "permissive", ""},
        os \in {"", "SLES 15 SP5"}, kv \in {"", "5.14.21"}}

\* The nodes of a run of main.
RunNodeKinds ==
    {[labels |-> MkLabels("true", Absent, "enabled"), osImage |-> "SLES 15 SP5",
      kernelVersion |-> "5.14.21"],
     [labels |-> MkLabels(Absent, Absent, Absent), osImage |-> "",
      kernelVersion |-> ""]}

NAME_rke2_canal == <<"r", "k", "e", "2", "-", "c", "a", "n", "a", "l">>
NAME_RKE2_Canal == <<"R", "K", "E", "2", "-", "C", "a", "n", "a", "l">>
NAME_kube_flannel_ds == <<"k", "u", "b", "e", "-", "f", "l", "a", "n", "n", "e", "l", "-", "d", "s">>
NAME_calico_node == <<"c", "a", "l", "i", "c", "o", "-", "n", "o", "d", "e">>
NAME_calico_canal == <<"c", "a", "l", "i", "c", "o", "-", "c", "a", "n", "a", "l">>
NAME_Cilium == <<"C", "i", "l", "i", "u", "m">>
NAME_weave_net == <<"w", "e", "a", "v", "e", "-", "n", "e", "t">>
NAME_kube_proxy == <<"k", "u", "b", "e", "-", "p", "r", "o", "x", "y">>
NAME_cana_l == <<"c", "a", "n", "a", "-", "l">>
NAME_rke2_ingress_nginx_controller == <<"r", "k", "e", "2", "-", "i", "n", "g", "r", "e", "s", "s", "-", "n", "g", "i", "n", "x", "-", "c", "o", "n", "t", "r", "o", "l", "l", "e", "r">>
NAME_Nginx_Ingress == <<"N", "g", "i", "n", "x", "-", "I", "n", "g", "r", "e", "s", "s">>
NAME_traefik == <<"t", "r", "a", "e", "f", "i", "k">>
NAME_Traefik_lb == <<"T", "r", "a", "e", "f", "i", "k", "-", "l", "b">>
NAME_traefik_nginx_ingress == <<"t", "r", "a", "e", "f", "i", "k", "-", "n", "g", "i", "n", "x", "-", "i", "n", "g", "r", "e", "s", "s">>
NAME_rke2_coredns == <<"r", "k", "e", "2", "-", "c", "o", "r", "e", "d", "n", "s">>

DaemonSetNames ==
    {NAME_rke2_canal, NAME_RKE2_Canal, NAME_kube_flannel_ds, NAME_calico_node,
     NAME_calico_canal, NAME_Cilium, NAME_weave_net, NAME_kube_proxy, NAME_cana_l,
     NAME_rke2_ingress_nginx_controller, NAME_Traefik_lb}

DeploymentNames ==
    {NAME_rke2_ingress_nginx_controller, NAME_Nginx_Ingress, NAME_traefik,
     NAME_Traefik_lb, NAME_traefik_nginx_ingress, NAME_rke2_coredns}

\* The workloads of a run of main.
RunDaemonSetNames == {NAME_RKE2_Canal, NAME_traefik, NAME_kube_proxy}
RunDeploymentNames == {NAME_Nginx_Ingress, NAME_rke2_coredns}

\* An answer of a list call: an error, or the items.
ListAnswers(names, n) ==
    {[err |-> TRUE, items |-> <<>>]}
        \cup {[err |-> FALSE, items |-> l] : l \in SeqsUpTo(names, n)}

NoAnswer == [err |-> TRUE, items |-> <<>>]

Versions == {"v1.28.3+rke2r1"}
NamespaceUIDs == {"0f3c6c1e-uid"}

DisableValues == {"true", "false", ""}
InvalidEndpoints == {"http://collector.local/%zz"}
EndpointValues == {"", "http://collector.local/v1"} \cup InvalidEndpoints

\* What client.Do can give: a transport error, or a response with a status.
\* accepted: whether the endpoint took the payload of the request.  A request
\* that never arrived and a response with a status outside 2xx leave nothing
\* at the endpoint; a response that is lost or late (the client's timeout)
\* comes after the endpoint took the payload.
TransportError == [err |-> TRUE, status |-> 0, accepted |-> FALSE]
ResponseLost == [err |-> TRUE, status |-> 0, accepted |-> TRUE]
Outcomes ==
    {TransportError, ResponseLost}
        \cup {[err |-> FALSE, status |-> st, accepted |-> (st >= 200 /\ st < 300)] :
                st \in {200, 299, 300, 503}}
Scripts == [1..maxRetries -> Outcomes]
NoScript == [i \in 1..maxRetries |-> TransportError]

NoJSON == Marshal(NilData)

-----------------------------------------------------------------------------
(* main *)

MainStart ==
    /\ pc = "start"
    /\ exitCode = -1
    /\ calls = <<>>
    /\ data = NilData
    /\ collectErr = ""
    /\ deployments = NoAnswer
    /\ script = NoScript
    /\ endpoint = ""
    /\ jsonData = NoJSON
    /\ attempt = 0
    /\ lastErr = ""
    /\ requests = <<>>
    /\ sleeps = <<>>
    /\ sendErr = "pending"

HarnessIdle ==
    /\ phase = "idle"
    /\ input = <<>>
    /\ output = <<>>

Init ==
    /\ build \in Builds
    /\ disableTelemetry \in DisableValues
    /\ telemetryEndpoint \in EndpointValues
    /\ MainStart
    /\ HarnessIdle

\* One more entry in the log of constructions and cluster queries.
Called(op, ok) == Append(calls, [op |-> op, ok |-> ok])

\* A slip in the opt-out test: any non-empty value disables.
CheckDisabled_nonEmpty ==
    /\ pc = "start"
    /\ IF disableTelemetry # ""
       THEN pc' = "done" /\ exitCode' = 0
       ELSE pc' = "config" /\ UNCHANGED exitCode
    /\ UNCHANGED <<build, disableTelemetry, telemetryEndpoint, calls, data, collectErr,
                   deployments, script, endpoint, jsonData, attempt, lastErr, requests,
                   sleeps, sendErr, harnessVars>>

\* if os.Getenv("DISABLE_TELEMETRY") == "true" { ...; return }
CheckDisabled ==
    /\ pc = "start"
    /\ IF disableTelemetry = "true"
       THEN pc' = "done" /\ exitCode' = 0
       ELSE pc' = "config" /\ UNCHANGED exitCode
    /\ UNCHANGED <<build, disableTelemetry, telemetryEndpoint, calls, data, collectErr,
                   deployments, script, endpoint, jsonData, attempt, lastErr, requests,
                   sleeps, sendErr, harnessVars>>

\* config, err := rest.InClusterConfig(); on an error os.Exit(1)
InClusterConfig ==
    /\ pc = "config"
    /\ \E ok \in BOOLEAN :
        /\ calls' = Called("InClusterConfig", ok)
        /\ IF ok THEN pc' = "clientset" /\ UNCHANGED exitCode
                 ELSE pc' = "done" /\ exitCode' = 1
    /\ UNCHANGED <<build, disableTelemetry, telemetryEndpoint, data, collectErr,
                   deployments, script, endpoint, jsonData, attempt, lastErr, requests,
                   sleeps, sendErr, harnessVars>>

\* clientset, err := kubernetes.NewForConfig(config); on an error os.Exit(1)
NewForConfig ==
    /\ pc = "clientset"
    /\ \E ok \in BOOLEAN :
        /\ calls' = Called("NewForConfig", ok)
        /\ IF ok THEN pc' = "version" /\ UNCHANGED exitCode
                 ELSE pc' = "done" /\ exitCode' = 1
    /\ UNCHANGED <<build, disableTelemetry, telemetryEndpoint, data, collectErr,
                   deployments, script, endpoint, jsonData, attempt, lastErr, requests,
                   sleeps, sendErr, harnessVars>>

\* A slip in the error handling: the failed query is logged and the run goes on
\* to the send with what it has.
CollectFails_goesOn(msg) ==
    /\ data' = data
    /\ collectErr' = msg
    /\ pc' = "send"
    /\ exitCode' = exitCode

\* collectTelemetryData returns (nil, err); main logs it and calls os.Exit(1).
CollectFails(msg) ==
    /\ data' = NilData
    /\ collectErr' = msg
    /\ pc' = "done"
    /\ exitCode' = 1

\* collectTelemetryData: its entry and clientset.Discovery().ServerVersion()
ServerVersion ==
    /\ pc = "version"
    /\ \/ /\ calls' = Called("ServerVersion", FALSE)
          /\ CollectFails("failed to get server version")
       \/ \E v \in Versions :
          /\ calls' = Called("ServerVersion", TRUE)
          /\ data' = [NewData EXCEPT !.appVersion = v,
                                     !.tags = Put(@, "kubernetesVersion", v)]
          /\ pc' = "namespace"
          /\ UNCHANGED <<collectErr, exitCode>>
    /\ UNCHANGED <<build, disableTelemetry, telemetryEndpoint, deployments, script,
                   endpoint, jsonData, attempt, lastErr, requests, sleeps, sendErr,
                   harnessVars>>

\* clientset.CoreV1().Namespaces().Get(ctx, "kube-system", ...)
GetNamespace ==
    /\ pc = "namespace"
    /\ \/ /\ calls' = Called("GetNamespace", FALSE)
          /\ CollectFails("failed to get kube-system namespace")
       \/ \E uid \in NamespaceUIDs :
          /\ calls' = Called("GetNamespace", TRUE)
          /\ data' = [data EXCEPT !.tags = Put(@, "clusteruuid", uid)]
          /\ pc' = "nodes"
          /\ UNCHANGED <<collectErr, exitCode>>
    /\ UNCHANGED <<build, disableTelemetry, telemetryEndpoint, deployments, script,
                   endpoint, jsonData, attempt, lastErr, requests, sleeps, sendErr,
                   harnessVars>>

\* The four assignments to data.ExtraFieldInfo after the node loop.
withCensus(fields, c) ==
    Put(Put(Put(Put(fields, "serverNodeCount", c.serverNodeCount),
                "agentNodeCount", c.agentNodeCount),
            "os", c.osInfo),
        "selinux", c.selinuxInfo)

\* A slip in collectTelemetryData: a failed node listing is issued once more.
ListNodes_retriesOnce ==
    /\ pc = "nodes"
    /\ \E nodes \in ListAnswers(RunNodeKinds, MaxRunNodes) :
        /\ calls' = Called("ListNodes", ~nodes.err)
        /\ IF nodes.err /\ calls[Len(calls)].op # "ListNodes"
           THEN UNCHANGED <<data, collectErr, pc, exitCode>>
           ELSE IF nodes.err
           THEN CollectFails("failed to list nodes")
           ELSE /\ data' = [data EXCEPT
                                !.fields = withCensus(@, nodeCensus(build, nodes.items))]
                /\ pc' = "cni"
                /\ UNCHANGED <<collectErr, exitCode>>
    /\ UNCHANGED <<build, disableTelemetry, telemetryEndpoint, deployments, script,
                   endpoint, jsonData, attempt, lastErr, requests, sleeps, sendErr,
                   harnessVars>>

\* clientset.CoreV1().Nodes().List(...), the node loop and its four assignments
ListNodes ==
    /\ pc = "nodes"
    /\ \E nodes \in ListAnswers(RunNodeKinds, MaxRunNodes) :
        /\ calls' = Called("ListNodes", ~nodes.err)
        /\ IF nodes.err
           THEN CollectFails("failed to list nodes")
           ELSE /\ data' = [data EXCEPT
                                !.fields = withCensus(@, nodeCensus(build, nodes.items))]
                /\ pc' = "cni"
                /\ UNCHANGED <<collectErr, exitCode>>
    /\ UNCHANGED <<build, disableTelemetry, telemetryEndpoint, deployments, script,
                   endpoint, jsonData, attempt, lastErr, requests, sleeps, sendErr,
                   harnessVars>>

\* A slip in collectTelemetryData: the record is returned after the CNI
\* detection, the ingress detection left out.
DetectCNI_skipsIngress ==
    /\ pc = "cni"
    /\ \E daemonSets \in ListAnswers(RunDaemonSetNames, MaxRunWorkloads) :
        /\ calls' = Called("ListDaemonSets", ~daemonSets.err)
        /\ data' = [data EXCEPT !.fields =
                        Put(@, "cni-plugin", orUnknown(detectCNIPlugin(build, daemonSets)))]
    /\ pc' = "send"
    /\ UNCHANGED <<build, disableTelemetry, telemetryEndpoint, exitCode, collectErr,
                   deployments, script, endpoint, jsonData, attempt, lastErr, requests,
                   sleeps, sendErr, harnessVars>>

\* cniPlugin, err := detectCNIPlugin(ctx, clientset) and what follows it
DetectCNI ==
    /\ pc = "cni"
    /\ \E daemonSets \in ListAnswers(RunDaemonSetNames, MaxRunWorkloads) :
        /\ calls' = Called("ListDaemonSets", ~daemonSets.err)
        /\ data' = [data EXCEPT !.fields =
                        Put(@, "cni-plugin", orUnknown(detectCNIPlugin(build, daemonSets)))]
    /\ pc' = "ingress"
    /\ UNCHANGED <<build, disableTelemetry, telemetryEndpoint, exitCode, collectErr,
                   deployments, script, endpoint, jsonData, attempt, lastErr, requests,
                   sleeps, sendErr, harnessVars>>

\* detectIngressController up to its return or its second listing: the
\* Deployment listing and the loop over it.
IngressDeployments ==
    /\ pc = "ingress"
    /\ \E deps \in ListAnswers(RunDeploymentNames, MaxRunWorkloads) :
        /\ calls' = Called("ListDeployments", ~deps.err)
        /\ LET r == detectIngressController(build, deps, NoAnswer)
           IN  IF r.err \/ ~r.listedDaemonSets
               THEN /\ data' = [data EXCEPT !.fields =
                                    Put(@, "ingress-controller", orUnknown(r))]
                    /\ deployments' = NoAnswer
                    /\ pc' = "send"
               ELSE /\ deployments' = deps
                    /\ pc' = "ingress_ds"
                    /\ UNCHANGED data
    /\ UNCHANGED <<build, disableTelemetry, telemetryEndpoint, exitCode, collectErr,
                   script, endpoint, jsonData, attempt, lastErr, requests, sleeps,
                   sendErr, harnessVars>>

\* detectIngressController from its DaemonSet listing to its return, and the
\* return of collectTelemetryData.
IngressDaemonSets ==
    /\ pc = "ingress_ds"
    /\ \E daemonSets \in ListAnswers(RunDaemonSetNames, MaxRunWorkloads) :
        /\ calls' = Called("ListDaemonSets", ~daemonSets.err)
        /\ data' = [data EXCEPT !.fields =
                        Put(@, "ingress-controller",
                            orUnknown(detectIngressController(build, deployments,
                                                              daemonSets)))]
    /\ deployments' = NoAnswer
    /\ pc' = "send"
    /\ UNCHANGED <<build, disableTelemetry, telemetryEndpoint, exitCode, collectErr,
                   script, endpoint, jsonData, attempt, lastErr, requests, sleeps,
                   sendErr, harnessVars>>

-----------------------------------------------------------------------------
(* sendTelemetryData *)

\* A slip in http.NewRequest's caller: its error is not looked at.
NewRequestFails_never(url) == FALSE

\* http.NewRequest("POST", endpoint, ...) fails when the endpoint does not parse.
NewRequestFails(url) == url \in InvalidEndpoints

\* A slip in the status test: 299 is taken for a failure.
BadStatus_offByOne(status) == status < 200 \/ status >= 299

\* if resp.StatusCode < 200 || resp.StatusCode >= 300
BadStatus(status) == status < 200 \/ status >= 300

\* A slip in the loop: the reader over the body is made once before the loop,
\* so a request after another one carries what is left of it, nothing.
Request_drainedBody(url, body) ==
    [method |-> "POST", url |-> url, contentType |-> "application/json",
     body |-> IF requests = <<>> THEN body ELSE NoJSON]

\* http.NewRequest("POST", endpoint, bytes.NewBuffer(jsonData)) and
\* req.Header.Set("Content-Type", "application/json")
Request(url, body) ==
    [method |-> "POST", url |-> url, contentType |-> "application/json", body |-> body]

\* What the endpoint gives to the request that comes after `sent` others.
Answer(sent) == script[Len(sent) + 1]

\* A slip in main: a failed send ends the process like a failed collection.
SendReturns_fatal(e) ==
    /\ sendErr' = e
    /\ pc' = "done"
    /\ exitCode' = IF e = "nil" THEN 0 ELSE 1

\* sendTelemetryData returns e ("nil" for no error); main logs the outcome
\* and returns: exit code 0 either way.
SendReturns(e) ==
    /\ sendErr' = e
    /\ pc' = "done"
    /\ exitCode' = 0

\* main resolves the endpoint and calls sendTelemetryData, which marshals the
\* record and builds its client.  The endpoint's behaviour is fixed here.
SendStart ==
    /\ pc = "send"
    /\ endpoint' = IF telemetryEndpoint = "" THEN defaultTelemetryEndpoint
                                             ELSE telemetryEndpoint
    /\ jsonData' = Marshal(data)
    /\ script' \in Scripts
    /\ attempt' = 1
    /\ pc' = "attempt"
    /\ UNCHANGED <<build, disableTelemetry, telemetryEndpoint, exitCode, calls, data,
                   collectErr, deployments, lastErr, requests, sleeps, sendErr,
                   harnessVars>>

\* src/unnamed/part_001: "continue" after a failed attempt, and the end of the
\* loop when that was the last one.
AttemptFailed(msg) ==
    /\ lastErr' = msg
    /\ attempt' = attempt + 1
    /\ IF attempt + 1 <= maxRetries
       THEN pc' = "backoff" /\ UNCHANGED <<sendErr, exitCode>>
       ELSE SendReturns(msg)

\* src/unnamed/part_001: one iteration of the loop from http.NewRequest on.
Attempt ==
    /\ pc = "attempt"
    /\ build = "part_001"
    /\ IF NewRequestFails(endpoint)
       THEN /\ SendReturns("failed to create request")
            /\ UNCHANGED <<requests, attempt, lastErr>>
       ELSE /\ requests' = Append(requests, Request(endpoint, jsonData))
            /\ IF Answer(requests).err
               THEN AttemptFailed("failed to send request")
               ELSE IF BadStatus(Answer(requests).status)
               THEN AttemptFailed("unexpected status code")
               ELSE SendReturns("nil") /\ UNCHANGED <<attempt, lastErr>>
    /\ UNCHANGED <<build, disableTelemetry, telemetryEndpoint, calls, data, collectErr,
                   deployments, script, endpoint, jsonData, sleeps, harnessVars>>

\* A slip in the delay: attempt k waits k x retryDelay.
Backoff_offByOne ==
    /\ pc = "backoff"
    /\ sleeps' = Append(sleeps, attempt * retryDelay)
    /\ pc' = "attempt"
    /\ UNCHANGED <<build, disableTelemetry, telemetryEndpoint, exitCode, calls, data,
                   collectErr, deployments, script, endpoint, jsonData, attempt,
                   lastErr, requests, sendErr, harnessVars>>

\* src/unnamed/part_001: "if attempt > 1 { delay := ...; time.Sleep(delay) }"
Backoff ==
    /\ pc = "backoff"
    /\ sleeps' = Append(sleeps, (attempt - 1) * retryDelay)
    /\ pc' = "attempt"
    /\ UNCHANGED <<build, disableTelemetry, telemetryEndpoint, exitCode, calls, data,
                   collectErr, deployments, script, endpoint, jsonData, attempt,
                   lastErr, requests, sendErr, harnessVars>>

\* src/main.go: sendTelemetryData builds one request and sends it once.
SendOnce_main_go ==
    /\ pc = "attempt"
    /\ build = "main_go"
    /\ IF NewRequestFails(endpoint)
       THEN /\ SendReturns("failed to create request")
            /\ UNCHANGED requests
       ELSE /\ requests' = Append(requests, Request(endpoint, jsonData))
            /\ IF Answer(requests).err
               THEN SendReturns("failed to send request")
               ELSE IF BadStatus(Answer(requests).status)
               THEN SendReturns("unexpected status code")
               ELSE SendReturns("nil")
    /\ UNCHANGED <<build, disableTelemetry, telemetryEndpoint, calls, data, collectErr,
                   deployments, script, endpoint, jsonData, attempt, lastErr, sleeps,
                   harnessVars>>

Next ==
    \/ CheckDisabled
    \/ InClusterConfig
    \/ NewForConfig
    \/ ServerVersion
    \/ GetNamespace
    \/ ListNodes
    \/ DetectCNI
    \/ IngressDeployments
    \/ IngressDaemonSets
    \/ SendStart
    \/ Attempt
    \/ Backoff
    \/ SendOnce_main_go

Spec == Init /\ [][Next]_vars

\* main is one thread that runs to completion: no step of it waits for
\* another, and every blocking call is bounded by its timeout.
FairSpec == Spec /\ WF_vars(Next)

-----------------------------------------------------------------------------
(* The pure functions on their own: the argument is drawn at the start and  *)
(* the function is applied to it.                                          *)

HarnessStart ==
    /\ build \in Builds
    /\ disableTelemetry = ""
    /\ telemetryEndpoint = ""
    /\ MainStart
    /\ phase = "call"
    /\ output = <<>>

InitNode ==
    /\ HarnessStart
    /\ input \in NodeKinds

\* isControlPlaneNode(&node) and getSELinuxStatus(&node) on one node
ApplyNode ==
    /\ phase = "call"
    /\ output' = [controlPlane |-> isControlPlaneNode(input),
                  selinux |-> SELinuxStatusOf(build, input)]
    /\ phase' = "return"
    /\ UNCHANGED <<build, mainVars, input>>

SpecNode == InitNode /\ [][ApplyNode]_vars

InitCensus ==
    /\ HarnessStart
    /\ input \in SeqsUpTo(NodeKinds, MaxNodes)

\* the node loop of collectTelemetryData on one listing
ApplyCensus ==
    /\ phase = "call"
    /\ output' = nodeCensus(build, input)
    /\ phase' = "return"
    /\ UNCHANGED <<build, mainVars, input>>

SpecCensus == InitCensus /\ [][ApplyCensus]_vars

InitDetect ==
    /\ HarnessStart
    /\ input \in [daemonSets : ListAnswers(DaemonSetNames, MaxWorkloads),
                  deployments : ListAnswers(DeploymentNames, MaxDeployments)]

\* detectCNIPlugin and the field collectTelemetryData makes of its result
ApplyDetectCNI ==
    /\ phase = "call"
    /\ LET r == detectCNIPlugin(build, input.daemonSets)
       IN  output' = [fn |-> "detectCNIPlugin", result |-> r, field |-> orUnknown(r)]
    /\ phase' = "return"
    /\ UNCHANGED <<build, mainVars, input>>

\* detectIngressController and the field collectTelemetryData makes of its result
ApplyDetectIngress ==
    /\ phase = "call"
    /\ LET r == detectIngressController(build, input.deployments, input.daemonSets)
       IN  output' = [fn |-> "detectIngressController", result |-> r,
                      field |-> orUnknown(r)]
    /\ phase' = "return"
    /\ UNCHANGED <<build, mainVars, input>>

NextDetect == ApplyDetectCNI \/ ApplyDetectIngress

SpecDetect == InitDetect /\ [][NextDetect]_vars

-----------------------------------------------------------------------------
(* Claims *)

\* C1: with DISABLE_TELEMETRY exactly "true" the run makes no client
\* construction, no cluster query, no HTTP attempt and no sleep, and it ends
\* with exit code 0; with any other value, unset included, the run does not end
\* before rest.InClusterConfig has been called, and the first query of the
\* collection follows once both constructions have succeeded.
C1_OptOut ==
    /\ [](disableTelemetry = "true" =>
            /\ calls = <<>> /\ requests = <<>> /\ sleeps = <<>>
            /\ pc \in {"start", "done"}
            /\ (pc = "done" => exitCode = 0))
    /\ [](disableTelemetry # "true" /\ pc # "start" =>
            /\ pc = "config" \/ (calls # <<>> /\ calls[1].op = "InClusterConfig")
            /\ (Len(calls) >= 2 /\ calls[1].ok /\ calls[2].ok /\ pc # "version"
                    => Len(calls) >= 3 /\ calls[3].op = "ServerVersion"))
    /\ (disableTelemetry = "true" ~> (pc = "done" /\ exitCode = 0))

C1_Witness ==
    disableTelemetry = "true" /\ pc = "done" /\ exitCode = 0 /\ calls = <<>>

\* rest.InClusterConfig or kubernetes.NewForConfig returned an error.
ConstructionFailed ==
    \E i \in 1..Len(calls) :
        calls[i].op \in {"InClusterConfig", "NewForConfig"} /\ ~calls[i].ok

\* C2: at the end of a run the exit code is non-zero exactly when a client
\* construction failed or collectTelemetryData returned an error; a run whose
\* send returned an error ends with exit code 0.
C2_ExitCode ==
    pc = "done" =>
        /\ exitCode # 0 <=> (ConstructionFailed \/ collectErr # "")
        /\ sendErr \notin {"pending", "nil"} => exitCode = 0

C2_Witness ==
    /\ pc = "done"
    /\ sendErr = "unexpected status code"
    /\ Len(requests) = maxRetries
    /\ exitCode = 0

\* An attempt fails: a transport error, or a status outside 200..299.
FailedOutcome(o) == o.err \/ o.status < 200 \/ o.status > 299

SendReturned == pc = "done" /\ sendErr # "pending" /\ endpoint \notin InvalidEndpoints

\* C3: when the endpoint fails every attempt (transport errors or statuses
\* outside 200..299 in any mix), sendTelemetryData makes exactly maxRetries HTTP
\* attempts and returns an error, and the process still exits with code 0.
C3_AllAttemptsFail ==
    SendReturned /\ (\A i \in 1..maxRetries : FailedOutcome(script[i])) =>
        /\ Len(requests) = maxRetries
        /\ sendErr # "nil"
        /\ exitCode = 0

\* C4: when the endpoint's first 2xx answer is its n-th (1 <= n <= 3), after n-1
\* failing answers, sendTelemetryData makes exactly n HTTP attempts and returns
\* success.
C4_StopsAtFirstSuccess ==
    \A n \in 1..maxRetries :
        (/\ SendReturned
         /\ ~FailedOutcome(script[n])
         /\ \A i \in 1..(n - 1) : FailedOutcome(script[i]))
        => Len(requests) = n /\ sendErr = "nil"

\* C5: a failed server-version query, kube-system namespace get or node list is
\* the last cluster query of the run; the run has ended with a non-zero exit
\* code, no record was returned and no HTTP attempt was made.
C5_FatalCollection ==
    \A i \in 1..Len(calls) :
        (calls[i].op \in {"ServerVersion", "GetNamespace", "ListNodes"} /\ ~calls[i].ok)
        => /\ i = Len(calls)
           /\ pc = "done"
           /\ exitCode \notin {-1, 0}
           /\ data.nil
           /\ collectErr # ""
           /\ requests = <<>>
           /\ sendErr = "pending"

C5_Witness ==
    /\ Len(calls) = 5
    /\ calls[5] = [op |-> "ListNodes", ok |-> FALSE]
    /\ pc = "done"
    /\ exitCode = 1

\* The field a workload listing decides: the first DaemonSet listing is that of
\* detectCNIPlugin, the later listings are those of detectIngressController.
FieldOfListing(i) ==
    IF calls[i].op = "ListDaemonSets"
       /\ ~\E j \in 1..(i - 1) : calls[j].op = "ListDaemonSets"
    THEN "cni-plugin"
    ELSE "ingress-controller"

\* C6: a failed workload listing (the DaemonSet listing of detectCNIPlugin, the
\* Deployment listing or the DaemonSet listing of detectIngressController) does
\* not abort the run and makes its field "unknown"; the record is returned and
\* the send is attempted.
C6_DetectionDegrades ==
    \A i \in 1..Len(calls) :
        (calls[i].op \in {"ListDaemonSets", "ListDeployments"} /\ ~calls[i].ok)
        => /\ exitCode \in {-1, 0}
           /\ ~data.nil
           /\ collectErr = ""
           /\ data.fields[FieldOfListing(i)] = "unknown"
           /\ (pc = "done" => sendErr # "pending")

\* A node carries one of the two role label keys, whatever the value.
HasRoleLabel(node) ==
    \E k \in DOMAIN node.labels : k \in {LabelControlPlane, LabelMaster}

\* C7: the node loop counts as server exactly the nodes that carry one of the
\* two role label keys and as agent all the others, each node once.
C7_NodeCounts ==
    phase = "return" =>
        /\ output.serverNodeCount =
               Cardinality({i \in 1..Len(input) : HasRoleLabel(input[i])})
        /\ output.agentNodeCount =
               Cardinality({i \in 1..Len(input) : ~HasRoleLabel(input[i])})
        /\ output.serverNodeCount + output.agentNodeCount = Len(input)

C7_Witness ==
    /\ phase = "return"
    /\ Len(input) = 2
    /\ DOMAIN input[1].labels = {LabelMaster}
    /\ input[1].labels[LabelMaster] = ""
    /\ ~HasRoleLabel(input[2])
    /\ output.serverNodeCount = 1
    /\ output.agentNodeCount = 1

\* C8: for a non-empty listing the os and selinux of the loop are those of the
\* first node: its OSImage, the empty string included, and its SELinux status.
C8_FirstNodeWins ==
    (phase = "return" /\ Len(input) >= 1) =>
        /\ output.osInfo = input[1].osImage
        /\ output.selinuxInfo = SELinuxStatusOf(build, input[1])

\* C9: the SELinux status of a node is decided by its selinux label alone:
\* "enabled" gives enabled, any other value gives disabled, no label gives
\* unknown.
C9_SELinuxByLabel ==
    phase = "return" =>
        output.selinux =
            IF LabelSELinux \notin DOMAIN input.labels THEN "unknown"
            ELSE IF input.labels[LabelSELinux] = "enabled" THEN "enabled"
            ELSE "disabled"

\* Two characters are the same letter when case is ignored.
SameLetter(a, b) ==
    \/ a = b
    \/ \E k \in 1..Len(UpperChars) : {a, b} = {UpperChars[k], LowerChars[k]}

\* kw occurs somewhere in name when case is ignored.
OccursIgnoringCase(name, kw) ==
    \E i \in 0..(Len(name) - Len(kw)) :
        \A j \in 1..Len(kw) : SameLetter(name[i + j], kw[j])

AnyOccurs(items, kws) ==
    \E i \in 1..Len(items) : \E kw \in kws : OccursIgnoringCase(items[i], kw)

CNIKeywords == {KW_canal, KW_flannel, KW_calico, KW_cilium, KW_weave}
IngressKeywords == {KW_nginx_ingress, KW_rke2_ingress_nginx, KW_traefik}

\* C10: with the listings successful, cni-plugin is "unknown" exactly when no
\* DaemonSet name holds a CNI keyword with case ignored, and ingress-controller
\* is "none" exactly when no Deployment or DaemonSet name holds an ingress
\* keyword with case ignored.
C10_CaseInsensitiveMatch ==
    /\ (phase = "return" /\ output.fn = "detectCNIPlugin" /\ ~input.daemonSets.err)
        => (output.field = "unknown"
                <=> ~AnyOccurs(input.daemonSets.items, CNIKeywords))
    /\ (/\ phase = "return" /\ output.fn = "detectIngressController"
        /\ ~input.daemonSets.err /\ ~input.deployments.err)
        => (output.field = "none"
                <=> ~AnyOccurs(input.deployments.items \o input.daemonSets.items,
                               IngressKeywords))

TagKeys == {"kubernetesVersion", "clusteruuid"}
FieldKeys ==
    {"serverNodeCount", "agentNodeCount", "os", "selinux", "cni-plugin",
     "ingress-controller"}

\* collectTelemetryData has returned a record to main.
Collected == ~data.nil /\ pc \in {"send", "attempt", "backoff", "done"}

\* C11: a record returned by collectTelemetryData, for every cluster state, an
\* empty node list included, holds exactly the two tag keys and the six field
\* keys, non-negative node counts, a selinux among enabled, disabled and
\* unknown, and an appVersion equal to its kubernetesVersion tag.
C11_RecordShape ==
    Collected =>
        /\ DOMAIN data.tags = TagKeys
        /\ DOMAIN data.fields = FieldKeys
        /\ data.fields["serverNodeCount"] >= 0
        /\ data.fields["agentNodeCount"] >= 0
        /\ data.fields["selinux"] \in {"enabled", "disabled", "unknown"}
        /\ data.appVersion = data.tags["kubernetesVersion"]

\* The requests of the run whose payload the endpoint took.
AcceptedRequests == {i \in 1..Len(requests) : script[i].accepted}

\* C12 as stated: in any run the endpoint takes the payload at most once.
C12_AcceptedAtMostOnce == Cardinality(AcceptedRequests) <= 1

\* C12 as amended: at most one request of a run is answered with a 2xx status,
\* and no request follows it; a request whose answer is lost is retried, so the
\* endpoint can take the payload of up to maxRetries requests.
C12_NoRequestAfterSuccess ==
    /\ \A i \in 1..Len(requests) :
          ~FailedOutcome(script[i]) =>
              /\ i = Len(requests)
              /\ pc = "done"
              /\ sendErr = "nil"
    /\ Cardinality(AcceptedRequests) <= maxRetries

C12_Witness ==
    /\ pc = "done"
    /\ sendErr = "nil"
    /\ Len(requests) = 2
    /\ script[1] = ResponseLost
    /\ script[2].status = 200
    /\ Cardinality(AcceptedRequests) = 2

RECURSIVE SumSeq(_)
SumSeq(s) == IF s = <<>> THEN 0 ELSE Head(s) + SumSeq(Tail(s))

\* C13: the k-th wait of a run is the one before attempt k + 1 and lasts
\* k x retryDelay; no wait comes before attempt 1 or after the last attempt, so
\* a run of 3 attempts has waited 3 x retryDelay in all and a run of 1 attempt
\* has waited 0.
C13_LinearBackoff ==
    /\ \A k \in 1..Len(sleeps) : sleeps[k] = k * retryDelay
    /\ requests = <<>> => sleeps = <<>>
    /\ pc = "attempt" => Len(sleeps) = Len(requests)
    /\ (pc \in {"backoff", "done"} /\ requests # <<>>) =>
           Len(sleeps) = Len(requests) - 1
    /\ (pc = "done" /\ Len(requests) = maxRetries) =>
           SumSeq(sleeps) = 1 * retryDelay + 2 * retryDelay
    /\ (pc = "done" /\ Len(requests) = 1) => SumSeq(sleeps) = 0

C13_Witness ==
    /\ pc = "done"
    /\ Len(requests) = maxRetries
    /\ sleeps = <<retryDelay, 2 * retryDelay>>
    /\ sendErr = "nil"

\* The keyword tables in the order the claims give them.
CNITable ==
    << [kw |-> KW_canal, label |-> "canal"], [kw |-> KW_flannel, label |-> "flannel"],
       [kw |-> KW_calico, label |-> "calico"], [kw |-> KW_cilium, label |-> "cilium"],
       [kw |-> KW_weave, label |-> "weave"] >>

IngressTable ==
    << [kw |-> KW_nginx_ingress, label |-> "rke2-ingress-nginx"],
       [kw |-> KW_rke2_ingress_nginx, label |-> "rke2-ingress-nginx"],
       [kw |-> KW_traefik, label |-> "traefik"] >>

\* name holds a keyword of the table, case ignored.
Hits(table, name) == \E k \in 1..Len(table) : OccursIgnoringCase(name, table[k].kw)

\* The label of the earliest keyword of the table that name holds.
FirstLabel(table, name) ==
    LET k == CHOOSE k \in 1..Len(table) :
                 /\ OccursIgnoringCase(name, table[k].kw)
                 /\ \A m \in 1..(k - 1) : ~OccursIgnoringCase(name, table[m].kw)
    IN  table[k].label

\* The earliest name of items that holds a keyword of the table.
FirstHit(table, items) ==
    CHOOSE i \in 1..Len(items) :
        /\ Hits(table, items[i])
        /\ \A m \in 1..(i - 1) : ~Hits(table, items[m])

\* C14: with the listing successful and a keyword in some DaemonSet name,
\* detectCNIPlugin returns the label of the earliest keyword, in the order
\* canal, flannel, calico, cilium, weave, held by the earliest-listed name that
\* holds any keyword; the names listed after it have no part in the result.
C14_FirstHitWins ==
    (/\ phase = "return" /\ output.fn = "detectCNIPlugin" /\ ~input.daemonSets.err
     /\ AnyOccurs(input.daemonSets.items, CNIKeywords))
        => LET items == input.daemonSets.items
               i == FirstHit(CNITable, items)
           IN  /\ ~output.result.err
               /\ output.result.label = FirstLabel(CNITable, items[i])
               /\ output.result =
                      detectCNIPlugin(build, [err |-> FALSE, items |-> SubSeq(items, 1, i)])

\* C15: with the Deployment listing successful, detectIngressController lists
\* the DaemonSets exactly when no Deployment name holds an ingress keyword; a
\* Deployment that holds one decides the result, the earliest-listed first, and
\* otherwise the earliest-listed DaemonSet that holds one does; a name holding
\* nginx-ingress or rke2-ingress-nginx gives "rke2-ingress-nginx" even when it
\* holds traefik too.
C15_DeploymentsFirst ==
    (/\ phase = "return" /\ output.fn = "detectIngressController"
     /\ ~input.deployments.err)
        => LET deps == input.deployments.items
               dss == input.daemonSets.items
               r == output.result
           IN  /\ r.listedDaemonSets <=> ~AnyOccurs(deps, IngressKeywords)
               /\ AnyOccurs(deps, IngressKeywords) =>
                      /\ ~r.err
                      /\ r.label = FirstLabel(IngressTable,
                                              deps[FirstHit(IngressTable, deps)])
               /\ (/\ ~AnyOccurs(deps, IngressKeywords) /\ ~input.daemonSets.err
                   /\ AnyOccurs(dss, IngressKeywords)) =>
                      /\ ~r.err
                      /\ r.label = FirstLabel(IngressTable,
                                              dss[FirstHit(IngressTable, dss)])
               /\ r.label \in {"rke2-ingress-nginx", "traefik", "none"}

\* The cluster queries of a run in the order of the program text.
QueryOrder ==
    << "InClusterConfig", "NewForConfig", "ServerVersion", "GetNamespace", "ListNodes",
       "ListDaemonSets", "ListDeployments", "ListDaemonSets" >>

\* The queries that collectTelemetryData has to have issued before it returns
\* a record: the DaemonSet listing of the ingress detection is left out when
\* a Deployment decided it or the Deployment listing failed.
IsFullCollection(ops) ==
    \/ ops = QueryOrder
    \/ ops = SubSeq(QueryOrder, 1, Len(QueryOrder) - 1)

\* C16: the queries issued so far are, one at a time, a prefix of version,
\* namespace, node list, DaemonSet list, Deployment list, DaemonSet list (after
\* the two calls that build the client), each issued only after the one before
\* it answered without a fatal error; an HTTP request exists only after the
\* last query of the collection has returned and the record holds all its keys,
\* and it carries that record.
C16_SequentialQueries ==
    LET ops == [i \in 1..Len(calls) |-> calls[i].op]
    IN  /\ Len(ops) <= Len(QueryOrder)
        /\ ops = SubSeq(QueryOrder, 1, Len(ops))
        /\ \A i \in 1..(Len(calls) - 1) : i <= 5 => calls[i].ok
        /\ disableTelemetry = "true" => calls = <<>>
        /\ (pc \in {"attempt", "backoff"} \/ requests # <<>>) =>
               /\ IsFullCollection(ops)
               /\ DOMAIN data.tags = TagKeys
               /\ DOMAIN data.fields = FieldKeys
               /\ jsonData = Marshal(data)
               /\ \A i \in 1..Len(requests) : requests[i].body = jsonData

C16_Witness ==
    /\ pc = "done"
    /\ Len(requests) >= 1
    /\ [i \in 1..Len(calls) |-> calls[i].op] = QueryOrder

\* The queries whose failure ends the run.
FatalQueries ==
    {"InClusterConfig", "NewForConfig", "ServerVersion", "GetNamespace", "ListNodes"}

\* No failed query is issued again: a failed query that ends the run is the
\* last one of the run, and a failed detection listing is followed, if at all,
\* by the listing of the next step, never by the same listing.
NoQueryReissued ==
    \A i \in 1..(Len(calls) - 1) :
        ~calls[i].ok =>
            /\ calls[i].op \notin FatalQueries
            /\ calls[i + 1].op # calls[i].op

\* At most maxRetries HTTP attempts and one sleep fewer.
WithinSendBudget ==
    /\ Len(requests) <= maxRetries
    /\ Len(sleeps) <= maxRetries - 1
    /\ attempt <= maxRetries + 1

\* C17: with every blocking call returning, every run reaches its end, with
\* exit code 0 or 1, and stays there; along the run there are at most
\* maxRetries HTTP attempts and at most maxRetries - 1 sleeps, and no failed
\* cluster query is issued again.
C17_Terminates ==
    /\ <>[](pc = "done" /\ exitCode \in {0, 1})
    /\ [](WithinSendBudget /\ NoQueryReissued)

C17_Witness ==
    /\ pc = "done"
    /\ exitCode = 0
    /\ Len(requests) = maxRetries
    /\ Len(sleeps) = maxRetries - 1
    /\ sendErr # "nil"
    /\ \E i \in 1..Len(calls) : ~calls[i].ok

\* The endpoint main resolves: the override when it is set, else the default.
ResolvedEndpoint ==
    IF telemetryEndpoint = "" THEN defaultTelemetryEndpoint ELSE telemetryEndpoint

\* From the call of sendTelemetryData on, the record is the one that
\* collectTelemetryData returned and jsonData is its serialization; every
\* request of the run is a POST of that body to the resolved endpoint.
SameRequestEveryAttempt ==
    /\ (pc \in {"attempt", "backoff"} \/ requests # <<>>) =>
           /\ ~data.nil
           /\ jsonData = Marshal(data)
           /\ endpoint = ResolvedEndpoint
    /\ \A i \in 1..Len(requests) :
           /\ requests[i] = requests[1]
           /\ requests[i].body = jsonData
           /\ requests[i].url = ResolvedEndpoint
           /\ requests[i].method = "POST"

C18_Witness ==
    /\ pc = "done"
    /\ Len(requests) = maxRetries
    /\ requests[maxRetries] = requests[1]
    /\ requests[1].body = Marshal(data)
    /\ requests[1].body # NoJSON

\* A step of sendTelemetryData leaves the record, its serialization and the
\* endpoint as they were.
RecordFrozenStep ==
    pc \in {"attempt", "backoff"} =>
        (data' = data /\ jsonData' = jsonData /\ endpoint' = endpoint)

\* C18: the record is serialized once, at the call of sendTelemetryData, and
\* no later step changes the record, its serialization or the endpoint; every
\* request of the run, the first and the retries, is a POST of that identical
\* body to the identical endpoint.
C18_SameBodyEveryAttempt ==
    /\ []SameRequestEveryAttempt
    /\ [][RecordFrozenStep]_vars

\* C19: with an endpoint that http.NewRequest rejects, sendTelemetryData
\* returns "failed to create request" from its first iteration: no request is
\* sent, no sleep is made, no further attempt is counted, and the run ends with
\* exit code 0.
C19_RequestBuildFailure ==
    (~data.nil /\ ResolvedEndpoint \in InvalidEndpoints) =>
        /\ requests = <<>>
        /\ sleeps = <<>>
        /\ pc \notin {"backoff"}
        /\ attempt <= 1
        /\ lastErr = ""
        /\ pc = "done" =>
               /\ sendErr = "failed to create request"
               /\ exitCode = 0

C19_Witness ==
    /\ pc = "done"
    /\ build = "part_001"
    /\ ResolvedEndpoint \in InvalidEndpoints
    /\ sendErr = "failed to create request"
    /\ exitCode = 0
    /\ requests = <<>>
    /\ sleeps = <<>>

====
